---- MODULE Spec2Model ----
(***************************************************************************)
(* name-hash.c: the name hash of an index_state.                           *)
(*                                                                         *)
(* Two hash tables hang off an index_state: name_hash maps the case-folded *)
(* hash of a full path to the cache_entry objects with that hash, and      *)
(* dir_hash maps the case-folded hash of a directory prefix to a           *)
(* reference-counted dir_entry linked to its parent directory.  Both are   *)
(* built lazily by the first lookup and then maintained by add_name_hash   *)
(* and remove_name_hash.                                                   *)
(*                                                                         *)
(* Paths are sequences of byte codes (ASCII), C pointers to cache entries  *)
(* and dir entries are identifiers, and NULL is 0.                         *)
(***************************************************************************)
EXTENDS Integers, Sequences, FiniteSets, TLC

\* ------------------------------------------------------------------ bounds
\* Number of cache_entry objects of the universe (a prefix of EntryNames).
NumEntries == 4
\* Size of the arena dir_entry objects are allocated from.
MaxNodes == 3

\* --------------------------------------------------------------- constants
NULL == 0
\* '/' : the only directory separator (is_dir_sep on a POSIX build).
SLASH == 47
\* Bits of cache_entry.precompute_hash_state.
CE_PRECOMPUTE_HASH_STATE__SET == 1
CE_PRECOMPUTE_HASH_STATE__DIR == 2

\* --------------------------------------------------------------- the paths
\* ce->name of each cache_entry object, as ASCII codes.
\*   1: "D/x"     2: "D/x" (a second object with the same spelling, as the
\*   stages of an unmerged path)   3: "d/E/y"   4: "z"   5: "D/e/Y"
\*   6: "D/e/w"
EntryNames ==
    << <<68, 47, 120>>,
       <<68, 47, 120>>,
       <<100, 47, 69, 47, 121>>,
       <<122>>,
       <<68, 47, 101, 47, 89>>,
       <<68, 47, 101, 47, 119>> >>

Entries == 1..NumEntries
NodeIds == 1..MaxNodes

\* ce->name and ce_namelen(ce)
Name(e) == EntryNames[e]
ce_namelen(e) == Len(EntryNames[e])

\* ----------------------------------------------------------------- ctype
toupper(c) == IF c >= 97 /\ c <= 122 THEN c - 32 ELSE c

\* The bytes name[0..n-1] of a NUL-terminated C string: the terminator is
\* the byte read at offset Len(name).
ByteAt(name, i) == IF i <= Len(name) THEN name[i] ELSE 0
Span(name, n) == [i \in 1..n |-> ByteAt(name, i)]

\* A path with every ASCII letter folded to upper case.
Fold(name) == [i \in 1..Len(name) |-> toupper(name[i])]

\* ------------------------------------------------------------------ hash
\* memihash_cont(hash_seed, buf, len): continue a case-folding multiplicative
\* hash over more bytes.  The width is narrowed so that distinct paths
\* collide.
RECURSIVE memihash_cont(_, _)
memihash_cont(hash_seed, buf) ==
    IF buf = <<>> THEN hash_seed
    ELSE memihash_cont((hash_seed * 3 + toupper(Head(buf))) % 5, Tail(buf))

\* memihash(buf, len)
memihash(buf) == memihash_cont(1, buf)

Hashes == 0..4

\* ----------------------------------------------------------------- state
VARIABLES
    ce,           \* the cache_entry objects: CE_HASHED and the precomputed hashes
    istate,       \* the index_state: cache, name_hash_initialized, name_hash, dir_hash
    heap,         \* the dir_entry objects, by address
    ub,           \* a freed dir_entry has been dereferenced
    ignore_case,  \* the process-wide core.ignorecase switch
    ref,          \* the same operations run with no entry ever precomputed
    op            \* the last operation, its arguments and what it returned

vars == <<ce, istate, heap, ub, ignore_case, ref, op>>

\* A dir_entry slot that is not allocated.
FreeSlot ==
    [live |-> FALSE, hash |-> 0, parent |-> NULL, nr |-> 0, namelen |-> 0,
     name |-> <<>>]

\* Both hashmaps, as one collision chain per hash value, oldest member first.
EmptyMap == [h \in Hashes |-> <<>>]

\* The program state the functions of name-hash.c read and write.
World == [ce |-> ce, istate |-> istate, heap |-> heap, ub |-> ub,
          ignore_case |-> ignore_case]

HasBit(state, bit) == (state \div bit) % 2 = 1

\* ------------------------------------------------------------ hashmap
\* The members of a chain.
ChainSet(chain) == {chain[i] : i \in 1..Len(chain)}

\* The first member of a chain that is one of `matching` (the members the
\* comparison function accepts), or NULL.
FirstMatch(chain, matching) ==
    IF \E i \in 1..Len(chain) : chain[i] \in matching
    THEN chain[CHOOSE i \in 1..Len(chain) :
                 /\ chain[i] \in matching
                 /\ \A j \in 1..(i - 1) : chain[j] \notin matching]
    ELSE NULL

\* A chain without its member x.
Without(chain, x) == SelectSeq(chain, LAMBDA y : y # x)

\* hashmap_add(map, entry) for an entry initialised with `hash`.
hashmap_add(map, hash, x) == [map EXCEPT ![hash] = Append(@, x)]

\* ---------------------------------------------------------- dir_entry
\* strncasecmp(s1, s2, n) == 0 for a stored name s1 of n bytes.
strncasecmp_eq(s1, s2, n) ==
    \A i \in 1..n : toupper(ByteAt(s1, i)) = toupper(ByteAt(s2, i))

\* A comparison of the directory bytes that does not fold case.
dir_entry_cmp_eq_Exact(e1, namelen, name) ==
    e1.namelen = namelen /\ Span(name, e1.namelen) = e1.name

\* dir_entry_cmp(e1, e2, name) == 0, e2 being a key of length namelen and
\* name the key data.
dir_entry_cmp_eq(e1, namelen, name) ==
    e1.namelen = namelen /\ strncasecmp_eq(e1.name, name, e1.namelen)

find_dir_entry__hash(w, name, namelen, hash) ==
    IF hash \notin Hashes THEN NULL
    ELSE FirstMatch(w.istate.dir_hash[hash],
                    {d \in ChainSet(w.istate.dir_hash[hash]) :
                        dir_entry_cmp_eq(w.heap[d], namelen, name)})

find_dir_entry(w, name, namelen) ==
    find_dir_entry__hash(w, name, namelen, memihash(Span(name, namelen)))

\* while (namelen > 0 && !is_dir_sep(ce->name[namelen - 1])) namelen--;
RECURSIVE StripComponent(_, _)
StripComponent(name, namelen) ==
    IF namelen > 0 /\ name[namelen] # SLASH
    THEN StripComponent(name, namelen - 1)
    ELSE namelen

\* FLEX_ALLOC_MEM: the address of a fresh dir_entry.
Alloc(h) == CHOOSE d \in NodeIds :
                /\ ~h[d].live
                /\ \A d2 \in NodeIds : ~h[d2].live => d <= d2

\* A cursor trusted without comparing it with the entry's directory.
previous_dir_hit_Unchecked(w, e, namelen, has_prev, prev) ==
    has_prev /\ prev # NULL

\* The previous-directory cursor names the directory of the first namelen
\* bytes of ce->name:
\*   p_previous_dir && *p_previous_dir && namelen == (*p_previous_dir)->namelen
\*     && memcmp(ce->name, (*p_previous_dir)->name, namelen) == 0
previous_dir_hit(w, e, namelen, has_prev, prev) ==
    /\ has_prev
    /\ prev # NULL
    /\ namelen = w.heap[prev].namelen
    /\ SubSeq(Name(e), 1, namelen) = w.heap[prev].name

\* hash_dir_entry(istate, ce, namelen, p_previous_dir): the dir_entry of the
\* parent directory of the first namelen bytes of ce->name, created with
\* its missing ancestors when absent.  has_prev says p_previous_dir is not
\* NULL and prev is *p_previous_dir; the result carries the new
\* *p_previous_dir.
RECURSIVE hash_dir_entry(_, _, _, _, _)
hash_dir_entry(w, e, namelen0, has_prev, prev) ==
    LET state == w.ce[e].precompute_hash_state
        isset == HasBit(state, CE_PRECOMPUTE_HASH_STATE__SET)
        use_precomputed_dir_hash == isset /\ namelen0 = ce_namelen(e)
        stripped == StripComponent(Name(e), namelen0)
        namelen == stripped - 1
        none == [w |-> w, dir |-> NULL, prev |-> prev]
    IN  IF isset /\ ~HasBit(state, CE_PRECOMPUTE_HASH_STATE__DIR) THEN none
        ELSE IF stripped <= 0 THEN none
        ELSE
          LET cursor == previous_dir_hit(w, e, namelen, has_prev, prev)
              hash == IF use_precomputed_dir_hash
                      THEN w.ce[e].precompute_hash_dir
                      ELSE memihash(SubSeq(Name(e), 1, namelen))
              found == IF cursor THEN prev
                       ELSE find_dir_entry__hash(w, Name(e), namelen, hash)
          IN  IF found # NULL
              THEN [w |-> w, dir |-> found,
                    prev |-> IF has_prev THEN found ELSE prev]
              ELSE
                LET dir == Alloc(w.heap)
                    w1 == [w EXCEPT
                             !.heap[dir] =
                                 [live |-> TRUE, hash |-> hash, parent |-> NULL,
                                  nr |-> 0, namelen |-> namelen,
                                  name |-> SubSeq(Name(e), 1, namelen)],
                             !.istate.dir_hash =
                                 hashmap_add(@, hash, dir)]
                    r == hash_dir_entry(w1, e, namelen, FALSE, NULL)
                IN  [w |-> [r.w EXCEPT !.heap[dir].parent = r.dir],
                     dir |-> dir,
                     prev |-> IF has_prev THEN dir ELSE prev]

\* A walk that counts the reference on the directory itself and never on its
\* ancestors.
AddRefWalk_LeafOnly(w, dir) ==
    IF dir = NULL THEN w
    ELSE [w EXCEPT !.heap[dir].nr = @ + 1]

\* while (dir && !(dir->nr++)) dir = dir->parent;
RECURSIVE AddRefWalk(_, _)
AddRefWalk(w, dir) ==
    IF dir = NULL THEN w
    ELSE IF ~w.heap[dir].live THEN [w EXCEPT !.ub = TRUE]
    ELSE LET w1 == [w EXCEPT !.heap[dir].nr = @ + 1]
         IN  IF w.heap[dir].nr = 0
             THEN AddRefWalk(w1, w.heap[dir].parent)
             ELSE w1

\* add_dir_entry(istate, ce, p_previous_dir)
add_dir_entry(w, e, has_prev, prev) ==
    LET r == hash_dir_entry(w, e, ce_namelen(e), has_prev, prev)
    IN  [w |-> AddRefWalk(r.w, r.dir), prev |-> r.prev]

\* hashmap_remove(&istate->dir_hash, dir, NULL): the first member of dir's
\* chain that dir_entry_cmp finds equal to dir leaves the table.
dir_hash_remove(w, dir) ==
    LET d == w.heap[dir]
        hit == FirstMatch(w.istate.dir_hash[d.hash],
                          {x \in ChainSet(w.istate.dir_hash[d.hash]) :
                              dir_entry_cmp_eq(w.heap[x], d.namelen, d.name)})
    IN  IF hit = NULL THEN w.istate.dir_hash
        ELSE [w.istate.dir_hash EXCEPT ![d.hash] = Without(@, hit)]

\* A release that drops the directory itself and leaves its ancestors alone.
DropRefWalk_LeafOnly(w, dir) ==
    IF dir = NULL THEN w
    ELSE IF w.heap[dir].nr - 1 = 0
         THEN [w EXCEPT !.istate.dir_hash = dir_hash_remove(w, dir),
                        !.heap[dir] = FreeSlot]
         ELSE [w EXCEPT !.heap[dir].nr = @ - 1]

\* while (dir && !(--dir->nr)) { remove from dir_hash; free(dir); dir = parent; }
RECURSIVE DropRefWalk(_, _)
DropRefWalk(w, dir) ==
    IF dir = NULL THEN w
    ELSE IF ~w.heap[dir].live THEN [w EXCEPT !.ub = TRUE]
    ELSE IF w.heap[dir].nr - 1 = 0
         THEN DropRefWalk([w EXCEPT !.istate.dir_hash = dir_hash_remove(w, dir),
                                    !.heap[dir] = FreeSlot],
                          w.heap[dir].parent)
         ELSE [w EXCEPT !.heap[dir].nr = @ - 1]

\* remove_dir_entry(istate, ce)
remove_dir_entry(w, e) ==
    LET r == hash_dir_entry(w, e, ce_namelen(e), FALSE, NULL)
    IN  DropRefWalk(r.w, r.dir)

\* ------------------------------------------------------- cache entries
\* An insert that does not look at CE_HASHED first.
hash_index_entry_Unguarded(w, e, has_prev, prev) ==
    LET h == IF HasBit(w.ce[e].precompute_hash_state,
                       CE_PRECOMPUTE_HASH_STATE__SET)
             THEN w.ce[e].precompute_hash_name
             ELSE memihash(Name(e))
        w1 == [w EXCEPT !.ce[e].CE_HASHED = TRUE,
                        !.istate.name_hash = hashmap_add(@, h, e)]
    IN  IF w.ignore_case
        THEN add_dir_entry(w1, e, has_prev, prev)
        ELSE [w |-> w1, prev |-> prev]

\* hash_index_entry(istate, ce, p_previous_dir)
hash_index_entry(w, e, has_prev, prev) ==
    IF w.ce[e].CE_HASHED THEN [w |-> w, prev |-> prev]
    ELSE
      LET h == IF HasBit(w.ce[e].precompute_hash_state,
                         CE_PRECOMPUTE_HASH_STATE__SET)
               THEN w.ce[e].precompute_hash_name
               ELSE memihash(Name(e))
          w1 == [w EXCEPT !.ce[e].CE_HASHED = TRUE,
                          !.istate.name_hash = hashmap_add(@, h, e)]
      IN  IF w.ignore_case
          THEN add_dir_entry(w1, e, has_prev, prev)
          ELSE [w |-> w1, prev |-> prev]

\* for (nr = 0; nr < istate->cache_nr; nr++)
\*     hash_index_entry(istate, istate->cache[nr], &previous_dir);
RECURSIVE LazyInitLoop(_, _, _)
LazyInitLoop(w, nr, previous_dir) ==
    IF nr > Len(w.istate.cache) THEN w
    ELSE LET r == hash_index_entry(w, w.istate.cache[nr], TRUE, previous_dir)
         IN  LazyInitLoop(r.w, nr + 1, r.prev)

\* A build whose scan stops one entry short of the end of the collection.
lazy_init_name_hash_ShortScan(w) ==
    IF w.istate.name_hash_initialized THEN w
    ELSE LET w1 == [w EXCEPT !.istate.name_hash = EmptyMap,
                             !.istate.dir_hash = EmptyMap,
                             !.istate.cache = SubSeq(@, 1, Len(@) - 1)]
             w2 == LazyInitLoop(w1, 1, NULL)
         IN  [w2 EXCEPT !.istate.name_hash_initialized = TRUE,
                        !.istate.cache = w.istate.cache]

\* A build that does not look at name_hash_initialized first.
lazy_init_name_hash_Always(w) ==
    LET w1 == [w EXCEPT !.istate.name_hash = EmptyMap,
                        !.istate.dir_hash = EmptyMap]
        w2 == LazyInitLoop(w1, 1, NULL)
    IN  [w2 EXCEPT !.istate.name_hash_initialized = TRUE]

\* lazy_init_name_hash(istate)
lazy_init_name_hash(w) ==
    IF w.istate.name_hash_initialized THEN w
    ELSE LET w1 == [w EXCEPT !.istate.name_hash = EmptyMap,
                             !.istate.dir_hash = EmptyMap]
             w2 == LazyInitLoop(w1, 1, NULL)
         IN  [w2 EXCEPT !.istate.name_hash_initialized = TRUE]

\* add_name_hash(istate, ce)
add_name_hash(w, e) ==
    IF w.istate.name_hash_initialized
    THEN hash_index_entry(w, e, FALSE, NULL).w
    ELSE w

\* A comparison that takes every member of the chain for the entry sought.
cache_entry_cmp_eq_AnyMember(ce1, ce2, remove) == TRUE

\* cache_entry_cmp(ce1, ce2, remove) == 0
cache_entry_cmp_eq(ce1, ce2, remove) ==
    IF remove # NULL THEN ce1 = ce2 ELSE TRUE

\* ce->ent.hash: the hash the entry was last added under.  An entry that is
\* in no chain was last added under the hash of its name.
EntHash(w, e) ==
    IF \E h \in Hashes : \E i \in 1..Len(w.istate.name_hash[h]) :
           w.istate.name_hash[h][i] = e
    THEN CHOOSE h \in Hashes : \E i \in 1..Len(w.istate.name_hash[h]) :
           w.istate.name_hash[h][i] = e
    ELSE memihash(Name(e))

\* hashmap_remove(&istate->name_hash, ce, ce): the first member of ce's chain
\* that cache_entry_cmp finds equal to ce leaves the table.
name_hash_remove(w, e) ==
    LET h == EntHash(w, e)
        hit == FirstMatch(w.istate.name_hash[h],
                          {x \in ChainSet(w.istate.name_hash[h]) :
                              cache_entry_cmp_eq(x, e, e)})
    IN  IF hit = NULL THEN w.istate.name_hash
        ELSE [w.istate.name_hash EXCEPT ![h] = Without(@, hit)]

\* remove_name_hash(istate, ce)
remove_name_hash(w, e) ==
    IF ~w.istate.name_hash_initialized \/ ~w.ce[e].CE_HASHED THEN w
    ELSE
      LET w1 == [w EXCEPT !.ce[e].CE_HASHED = FALSE,
                          !.istate.name_hash = name_hash_remove(w, e)]
      IN  IF w.ignore_case THEN remove_dir_entry(w1, e) ELSE w1

\* free_name_hash(istate)
free_name_hash(w) ==
    IF ~w.istate.name_hash_initialized THEN w
    ELSE [w EXCEPT
            !.istate.name_hash_initialized = FALSE,
            !.istate.name_hash = EmptyMap,
            !.heap = [d \in NodeIds |->
                        IF \E h \in Hashes : \E i \in 1..Len(w.istate.dir_hash[h]) :
                               w.istate.dir_hash[h][i] = d
                        THEN FreeSlot ELSE @[d]],
            !.istate.dir_hash = EmptyMap]

\* --------------------------------------------------------------- lookups
\* slow_same_name(name1, len1, name2, len2)
slow_same_name(name1, len1, name2, len2) ==
    /\ len1 = len2
    /\ \A i \in 1..len1 :
          \/ ByteAt(name1, i) = ByteAt(name2, i)
          \/ toupper(ByteAt(name1, i)) = toupper(ByteAt(name2, i))

\* A comparison that folds case whether or not the caller asked for it.
same_name_AlwaysFold(e, name, namelen, icase) ==
    slow_same_name(name, namelen, Name(e), ce_namelen(e))

\* same_name(ce, name, namelen, icase)
same_name(e, name, namelen, icase) ==
    LET len == ce_namelen(e)
    IN  IF len = namelen /\ Span(name, len) = Name(e) THEN TRUE
        ELSE IF ~icase THEN FALSE
        ELSE slow_same_name(name, namelen, Name(e), len)

\* index_file_exists(istate, name, namelen, icase): the state after the lazy
\* build and the cache_entry returned (NULL for none).
index_file_exists(w, name, namelen, icase) ==
    LET w1 == lazy_init_name_hash(w)
        chain == w1.istate.name_hash[memihash(Span(name, namelen))]
    IN  [w |-> w1,
         res |-> FirstMatch(chain,
                            {x \in ChainSet(chain) :
                                same_name(x, name, namelen, icase)})]

\* index_dir_exists(istate, name, namelen): return dir && dir->nr;
index_dir_exists(w, name, namelen) ==
    LET w1 == lazy_init_name_hash(w)
        dir == find_dir_entry(w1, name, namelen)
    IN  [w |-> w1, res |-> dir # NULL /\ w1.heap[dir].nr # 0]

\* A copy that runs one byte past the end of the prefix.
memcpy_OneMore(dst, off, src, n) ==
    [i \in 1..Len(dst) |->
        IF i > off /\ i <= off + n + 1 THEN ByteAt(src, i) ELSE dst[i]]

\* memcpy(dst + off, src + off, n) on a buffer dst.
memcpy(dst, off, src, n) ==
    [i \in 1..Len(dst) |->
        IF i > off /\ i <= off + n THEN ByteAt(src, i) ELSE dst[i]]

\* while (*ptr && *ptr != '/') ptr++;     (offsets count from 0)
RECURSIVE SkipComponent(_, _)
SkipComponent(buf, ptr) ==
    IF ByteAt(buf, ptr + 1) # 0 /\ ByteAt(buf, ptr + 1) # SLASH
    THEN SkipComponent(buf, ptr + 1)
    ELSE ptr

\* The length of the span adjust_dirname_case looks up once ptr has stepped
\* over a '/': find_dir_entry(istate, name, ptr - name + 1).
AdjustLookupLen(ptr) == ptr + 1

\* The loop of adjust_dirname_case over the caller's buffer.
RECURSIVE AdjustLoop(_, _, _, _)
AdjustLoop(w, buf, startPtr, ptr) ==
    IF ByteAt(buf, ptr + 1) = 0 THEN buf
    ELSE
      LET p1 == SkipComponent(buf, ptr)
      IN  IF ByteAt(buf, p1 + 1) = SLASH
          THEN LET p2 == p1 + 1
                   dir == find_dir_entry(w, buf, AdjustLookupLen(p2))
               IN  IF dir # NULL
                   THEN AdjustLoop(w,
                                   memcpy(buf, startPtr, w.heap[dir].name,
                                          p2 - startPtr),
                                   p2, p2)
                   ELSE AdjustLoop(w, buf, startPtr, p2)
          ELSE AdjustLoop(w, buf, startPtr, p1)

\* adjust_dirname_case(istate, name): the state after the lazy build and the
\* caller's buffer after the call.
adjust_dirname_case(w, name) ==
    LET w1 == lazy_init_name_hash(w)
    IN  [w |-> w1, name |-> AdjustLoop(w1, name, 0, 0)]

\* ------------------------------------------------------------ precompute
\* A precomputation whose directory hash runs over the closing '/' too.
precompute_istate_hashes_WithSlash(c, e) ==
    LET namelen == StripComponent(Name(e), ce_namelen(e))
        dir_hash == memihash(SubSeq(Name(e), 1, namelen))
    IN  IF namelen <= 0
        THEN [c EXCEPT !.precompute_hash_name = memihash(Name(e)),
                       !.precompute_hash_state = CE_PRECOMPUTE_HASH_STATE__SET]
        ELSE [c EXCEPT !.precompute_hash_dir = dir_hash,
                       !.precompute_hash_name =
                           memihash_cont(dir_hash,
                                         SubSeq(Name(e), namelen + 1, ce_namelen(e))),
                       !.precompute_hash_state =
                           CE_PRECOMPUTE_HASH_STATE__SET
                             + CE_PRECOMPUTE_HASH_STATE__DIR]

\* precompute_istate_hashes(ce): the cache_entry after the call.
precompute_istate_hashes(c, e) ==
    LET stripped == StripComponent(Name(e), ce_namelen(e))
        namelen == stripped - 1
        dir_hash == memihash(SubSeq(Name(e), 1, namelen))
    IN  IF stripped <= 0
        THEN [c EXCEPT !.precompute_hash_name = memihash(Name(e)),
                       !.precompute_hash_state = CE_PRECOMPUTE_HASH_STATE__SET]
        ELSE [c EXCEPT !.precompute_hash_dir = dir_hash,
                       !.precompute_hash_name =
                           memihash_cont(dir_hash,
                                         SubSeq(Name(e), namelen + 1, ce_namelen(e))),
                       !.precompute_hash_state =
                           CE_PRECOMPUTE_HASH_STATE__SET
                             + CE_PRECOMPUTE_HASH_STATE__DIR]

\* ----------------------------------------------------------- the inputs
\* A path with every ASCII letter in lower case.
Lower(name) ==
    [i \in 1..Len(name) |->
        IF name[i] >= 65 /\ name[i] <= 90 THEN name[i] + 32 ELSE name[i]]

\* memcmp order of two paths, as the index sorts its entries.
RECURSIVE NameLess(_, _)
NameLess(a, b) ==
    IF a = <<>> THEN b # <<>>
    ELSE IF b = <<>> THEN FALSE
    ELSE IF Head(a) # Head(b) THEN Head(a) < Head(b)
    ELSE NameLess(Tail(a), Tail(b))

EntryLess(e1, e2) ==
    \/ NameLess(Name(e1), Name(e2))
    \/ Name(e1) = Name(e2) /\ e1 < e2

\* The entries of S in index order: istate->cache.
RECURSIVE SortedCache(_)
SortedCache(S) ==
    IF S = {} THEN <<>>
    ELSE LET m == CHOOSE x \in S : \A y \in S \ {x} : EntryLess(x, y)
         IN  <<m>> \o SortedCache(S \ {m})

\* The directories above a path: its prefixes that end before a '/'.
DirsOf(name) ==
    {SubSeq(name, 1, n - 1) : n \in {i \in 1..Len(name) : name[i] = SLASH}}

FileQueries ==
    {Name(e) : e \in Entries} \cup {Fold(Name(e)) : e \in Entries}

DirQueries ==
    LET dirs == UNION {DirsOf(Name(e)) : e \in Entries}
    IN  dirs \cup {Fold(d) : d \in dirs} \cup {Name(1)}

AdjustInputs ==
    LET dirs == UNION {DirsOf(Name(e)) : e \in Entries}
    IN  {Lower(Name(e)) : e \in Entries} \cup {Fold(Name(e)) : e \in Entries}
          \cup {Lower(d) : d \in dirs}

\* ----------------------------------------------------------------- views
\* The members of a hashmap.
Members(map) == UNION {ChainSet(map[h]) : h \in Hashes}

\* The entries currently in the Path Hash Index.
Indexed(w) == Members(w.istate.name_hash)

\* The Directory Reference Tree: every dir_entry of dir_hash with its stored
\* spelling, hash, reference count and the spelling of its parent (<<>> for
\* none, <<0>> for a freed one).
TreeView(w) ==
    {[name |-> w.heap[d].name,
      hash |-> w.heap[d].hash,
      nr |-> w.heap[d].nr,
      parent |-> IF w.heap[d].parent = NULL THEN <<>>
                 ELSE IF ~w.heap[w.heap[d].parent].live THEN <<0>>
                 ELSE w.heap[w.heap[d].parent].name] :
        d \in Members(w.istate.dir_hash)}

\* What the reference run keeps of a world.
Strip(w) == [ce |-> w.ce, istate |-> w.istate, heap |-> w.heap, ub |-> w.ub]

RefWorld == [ce |-> ref.ce, istate |-> ref.istate, heap |-> ref.heap,
             ub |-> ref.ub, ignore_case |-> ignore_case]

NoOp ==
    [name |-> "none", e |-> 0, q |-> <<>>, icase |-> FALSE, res |-> 0,
     out |-> <<>>, built |-> FALSE, hashed |-> FALSE, after_add |-> FALSE,
     add_acted |-> FALSE, before |-> {}]

\* ------------------------------------------------------------------ Init
\* The index as loaded: the ordered collection holds the entries of one of
\* `collections`, in index order; the loader has run precompute_istate_hashes
\* over the entries of `precomputed`; nothing is hashed yet.
InitWith(precomputed, collections) ==
    /\ ce = [e \in Entries |->
               LET c == [CE_HASHED |-> FALSE, precompute_hash_state |-> 0,
                         precompute_hash_dir |-> 0, precompute_hash_name |-> 0]
               IN  IF e \in precomputed THEN precompute_istate_hashes(c, e)
                   ELSE c]
    /\ \E S \in collections :
          istate = [cache |-> SortedCache(S), name_hash_initialized |-> FALSE,
                    name_hash |-> EmptyMap, dir_hash |-> EmptyMap]
    /\ heap = [d \in NodeIds |-> FreeSlot]
    /\ ub = FALSE
    /\ ignore_case \in BOOLEAN
    /\ ref = [ce |-> [e \in Entries |->
                        [CE_HASHED |-> FALSE, precompute_hash_state |-> 0,
                         precompute_hash_dir |-> 0, precompute_hash_name |-> 0]],
              istate |-> istate, heap |-> heap, ub |-> ub]
    /\ op = NoOp

\* The collection is empty or holds every entry, and the loader has
\* precomputed every entry or none.
Init == \E P \in {{}, Entries} : InitWith(P, {{}, Entries})

\* ---------------------------------------------------------------- actions
\* The state after an operation took World to w and the reference run to r.
Becomes(w, r, o) ==
    /\ ce' = w.ce
    /\ istate' = w.istate
    /\ heap' = w.heap
    /\ ub' = w.ub
    /\ ref' = Strip(r)
    /\ op' = o
    /\ UNCHANGED ignore_case

PrecomputeIstateHashes(e) ==
    /\ ce' = [ce EXCEPT ![e] = precompute_istate_hashes(@, e)]
    /\ op' = [NoOp EXCEPT !.name = "precompute_istate_hashes"]
    /\ UNCHANGED <<istate, heap, ub, ignore_case, ref>>

AddNameHash(e) ==
    Becomes(add_name_hash(World, e), add_name_hash(RefWorld, e),
            [NoOp EXCEPT !.name = "add_name_hash", !.e = e,
                         !.built = istate.name_hash_initialized,
                         !.hashed = ce[e].CE_HASHED,
                         !.before = TreeView(World)])

RemoveNameHash(e) ==
    LET after_add == /\ op.name = "add_name_hash"
                     /\ op.e = e
                     /\ op.built
    IN  Becomes(remove_name_hash(World, e), remove_name_hash(RefWorld, e),
                [NoOp EXCEPT !.name = "remove_name_hash", !.e = e,
                             !.built = istate.name_hash_initialized,
                             !.hashed = ce[e].CE_HASHED,
                             !.after_add = after_add,
                             !.add_acted = after_add /\ ~op.hashed,
                             !.before = IF after_add THEN op.before ELSE {}])

IndexFileExists(name, icase) ==
    LET r == index_file_exists(World, name, Len(name), icase)
    IN  Becomes(r.w, index_file_exists(RefWorld, name, Len(name), icase).w,
                [NoOp EXCEPT !.name = "index_file_exists", !.q = name,
                             !.icase = icase, !.res = r.res,
                             !.built = istate.name_hash_initialized])

IndexDirExists(name) ==
    LET r == index_dir_exists(World, name, Len(name))
    IN  Becomes(r.w, index_dir_exists(RefWorld, name, Len(name)).w,
                [NoOp EXCEPT !.name = "index_dir_exists", !.q = name,
                             !.res = IF r.res THEN 1 ELSE 0,
                             !.built = istate.name_hash_initialized])

AdjustDirnameCase(name) ==
    LET r == adjust_dirname_case(World, name)
    IN  Becomes(r.w, adjust_dirname_case(RefWorld, name).w,
                [NoOp EXCEPT !.name = "adjust_dirname_case", !.q = name,
                             !.out = r.name,
                             !.built = istate.name_hash_initialized])

FreeNameHash ==
    Becomes(free_name_hash(World), free_name_hash(RefWorld),
            [NoOp EXCEPT !.name = "free_name_hash",
                         !.built = istate.name_hash_initialized])

Next ==
    \/ \E e \in Entries : AddNameHash(e)
    \/ \E e \in Entries : RemoveNameHash(e)
    \/ \E name \in FileQueries : \E icase \in BOOLEAN :
          IndexFileExists(name, icase)
    \/ \E name \in DirQueries : IndexDirExists(name)
    \/ \E name \in AdjustInputs : AdjustDirnameCase(name)

Spec == Init /\ [][Next]_vars

\* The operations after a load that precomputes any entries it likes, at any
\* time: the reference run drops every precompute_istate_hashes call.
InitPre == InitWith({}, {Entries})

NextPre ==
    \/ \E e \in Entries : PrecomputeIstateHashes(e)
    \/ \E e \in Entries : AddNameHash(e)
    \/ \E e \in Entries : RemoveNameHash(e)
    \/ \E icase \in BOOLEAN : IndexFileExists(Name(1), icase)
    \/ IndexDirExists(Name(1))
    \/ AdjustDirnameCase(Name(1))

SpecPre == InitPre /\ [][NextPre]_vars

\* Entries inserted one by one, in any order, after the build: no removal.
NextOrder ==
    \/ \E e \in Entries : AddNameHash(e)
    \/ \E name \in FileQueries : \E icase \in BOOLEAN :
          IndexFileExists(name, icase)
    \/ \E name \in DirQueries : IndexDirExists(name)
    \/ \E name \in AdjustInputs : AdjustDirnameCase(name)

SpecOrder == Init /\ [][NextOrder]_vars

\* The operations with teardown: free_name_hash at any time, the lookups that
\* trigger the next build on one name each.
NextTeardown ==
    \/ \E e \in Entries : AddNameHash(e)
    \/ \E e \in Entries : RemoveNameHash(e)
    \/ \E icase \in BOOLEAN : IndexFileExists(Name(1), icase)
    \/ IndexDirExists(Name(1))
    \/ AdjustDirnameCase(Name(1))
    \/ FreeNameHash

SpecTeardown == InitPre /\ [][NextTeardown]_vars

\* =================================================================== claims
\* dir is a proper ancestor directory of path: path continues with a '/'
\* right after a prefix equal to dir, compared with or without case folding.
IsAncestor(dir, path, folded) ==
    /\ Len(dir) > 0
    /\ Len(path) > Len(dir)
    /\ path[Len(dir) + 1] = SLASH
    /\ IF folded THEN Fold(SubSeq(path, 1, Len(dir))) = Fold(dir)
       ELSE SubSeq(path, 1, Len(dir)) = dir

\* The statement of C1 as written: index_dir_exists(dir) is true exactly when
\* some indexed entry lies under dir, compared under the active policy,
\* whichever the policy is.
C1_AsWritten ==
    op.name = "index_dir_exists" =>
        (op.res = 1 <=>
            \E e \in Indexed(World) : IsAncestor(op.q, Name(e), ignore_case))

\* C1 (amended): under the case-insensitive policy index_dir_exists(dir) is
\* true exactly when some currently indexed entry's path has dir as a proper
\* ancestor directory under ASCII case folding (so it is false once all such
\* entries are removed); under the case-sensitive policy the directory table
\* is never populated and index_dir_exists is false for every dir.
C1_DirExists ==
    op.name = "index_dir_exists" =>
        IF ignore_case
        THEN op.res = 1 <=>
                \E e \in Indexed(World) : IsAncestor(op.q, Name(e), TRUE)
        ELSE op.res = 0

\* A directory is found through an entry that spells it in another case.
C1_Witness ==
    /\ op.name = "index_dir_exists"
    /\ ignore_case
    /\ op.res = 1
    /\ \A e \in Indexed(World) : ~IsAncestor(op.q, Name(e), FALSE)

\* index_dir_exists turns false again after the entries under a directory
\* have been removed.
C1_WitnessRemoved ==
    /\ op.name = "index_dir_exists"
    /\ ignore_case
    /\ op.res = 0
    /\ \E e \in Entries : ~ce[e].CE_HASHED /\ IsAncestor(op.q, Name(e), TRUE)
    /\ Indexed(World) # {}

\* The operation just run was the first lookup: it performed the lazy build.
JustBuilt ==
    /\ op.name \in {"index_file_exists", "index_dir_exists", "adjust_dirname_case"}
    /\ ~op.built
    /\ istate.name_hash_initialized

\* The entries of the ordered collection.
CacheSet == {istate.cache[i] : i \in 1..Len(istate.cache)}

\* The entry index_file_exists returns for e's own path.
LookupOwnPath(e, icase) ==
    index_file_exists(World, Name(e), ce_namelen(e), icase).res

\* The statement of C2 as written: right after the lazy build, looking up any
\* entry of the collection by its exact path returns that very entry, for
\* either icase.
C2_AsWritten ==
    JustBuilt =>
        \A e \in CacheSet : \A icase \in BOOLEAN : LookupOwnPath(e, icase) = e

\* C2 (amended): right after the lazy build, looking up an entry e of the
\* collection by its exact path returns an entry of the collection whose path
\* equals e's under ASCII case folding, byte for byte when icase is false;
\* it is e itself whenever no other entry of the collection has such a path.
C2_BuildThenLookup ==
    JustBuilt =>
        \A e \in CacheSet : \A icase \in BOOLEAN :
            LET r == LookupOwnPath(e, icase)
                Same(x) == IF icase THEN Fold(Name(x)) = Fold(Name(e))
                           ELSE Name(x) = Name(e)
            IN  /\ r \in CacheSet
                /\ Same(r)
                /\ (\A x \in CacheSet \ {e} : ~Same(x)) => r = e

\* The build has just run over a non-empty collection in which an entry is
\* found by its own path and another, spelled the same, is shadowed by it.
C2_Witness ==
    /\ JustBuilt
    /\ \E e \in CacheSet : \A icase \in BOOLEAN : LookupOwnPath(e, icase) = e
    /\ \E e \in CacheSet : LookupOwnPath(e, FALSE) \notin {NULL, e}

\* C3: index_file_exists with icase returns an indexed entry whose path equals
\* the name under ASCII case folding whenever one is indexed and none
\* otherwise; without icase it returns only an entry spelled exactly like the
\* name, and none when no indexed entry is.
C3_Lookup ==
    op.name = "index_file_exists" =>
        LET hits(folded) ==
                {e \in Indexed(World) :
                    IF folded THEN Fold(Name(e)) = Fold(op.q)
                    ELSE Name(e) = op.q}
        IN  IF op.icase
            THEN IF hits(TRUE) # {} THEN op.res \in hits(TRUE)
                 ELSE op.res = NULL
            ELSE /\ op.res # NULL => op.res \in hits(FALSE)
                 /\ hits(FALSE) = {} => op.res = NULL

\* A case-insensitive lookup returned an entry spelled differently from the
\* name, which shares its chain with an entry of another path.
C3_Witness ==
    /\ op.name = "index_file_exists"
    /\ op.icase
    /\ op.res # NULL
    /\ Name(op.res) # op.q
    /\ \E e \in Indexed(World) :
          /\ Fold(Name(e)) # Fold(op.q)
          /\ memihash(Name(e)) = memihash(op.q)

\* A case-sensitive lookup found nothing although a differently spelled entry
\* is indexed.
C3_WitnessExact ==
    /\ op.name = "index_file_exists"
    /\ ~op.icase
    /\ op.res = NULL
    /\ \E e \in Indexed(World) : Fold(Name(e)) = Fold(op.q)

\* The dir_entry objects that are allocated.
LiveNodes == {d \in NodeIds : heap[d].live}

\* The statement of C4 as written: on a built index under the
\* case-insensitive policy, add_name_hash(e) followed by remove_name_hash(e)
\* leaves the Directory Reference Tree as it was before the add, for any
\* entry e.
C4_AsWritten ==
    (op.name = "remove_name_hash" /\ op.after_add /\ ignore_case) =>
        TreeView(World) = op.before

\* C4 (amended): on a built index under the case-insensitive policy,
\* add_name_hash(e) on an entry that is not yet indexed followed by
\* remove_name_hash(e) restores the Directory Reference Tree exactly: the same
\* nodes with the same spelling, reference count and parent, and no dir_entry
\* allocated outside the table; and once no entry is indexed the tree holds
\* no node.
C4_AddRemoveRestores ==
    /\ (op.name = "remove_name_hash" /\ op.add_acted /\ ignore_case) =>
          /\ TreeView(World) = op.before
          /\ LiveNodes = Members(istate.dir_hash)
    /\ (istate.name_hash_initialized /\ Indexed(World) = {}) =>
          /\ TreeView(World) = {}
          /\ LiveNodes = {}

\* An entry two directories deep was added to a tree that already held nodes
\* and removed again.
C4_Witness ==
    /\ op.name = "remove_name_hash"
    /\ op.add_acted
    /\ ignore_case
    /\ Cardinality(DirsOf(Name(op.e))) = 2
    /\ TreeView(World) # {}
    /\ Cardinality(TreeView(World)) < 2

\* The directory prefixes of a buffer: the offsets right after each '/'.
PrefixEnds(name) == {i \in 1..Len(name) : name[i] = SLASH}

\* The buffer C5 describes: prefix after prefix, from the shortest, each
\* prefix for whose directory the tree holds a node (matched under case
\* folding) takes that node's stored spelling.
RECURSIVE ExpectedAdjust(_, _, _)
ExpectedAdjust(w, buf, k) ==
    IF k > Len(buf) THEN buf
    ELSE IF buf[k] # SLASH THEN ExpectedAdjust(w, buf, k + 1)
    ELSE LET nodes == {d \in Members(w.istate.dir_hash) :
                          /\ w.heap[d].namelen = k - 1
                          /\ Fold(w.heap[d].name) = Fold(SubSeq(buf, 1, k - 1))}
         IN  IF nodes = {} THEN ExpectedAdjust(w, buf, k + 1)
             ELSE LET d == CHOOSE x \in nodes : TRUE
                  IN  ExpectedAdjust(
                          w,
                          [i \in 1..Len(buf) |->
                              IF i < k THEN w.heap[d].name[i] ELSE buf[i]],
                          k + 1)

\* The statement of C5: adjust_dirname_case overwrites every directory prefix
\* of the buffer that has a node in the tree with the node's stored spelling.
C5_AsWritten ==
    op.name = "adjust_dirname_case" => op.out = ExpectedAdjust(World, op.q, 1)

\* C6: adjust_dirname_case keeps the buffer's length and separator positions
\* and every byte after the last '/'.
C6_FinalComponentKept ==
    op.name = "adjust_dirname_case" =>
        /\ Len(op.out) = Len(op.q)
        /\ PrefixEnds(op.out) = PrefixEnds(op.q)
        /\ \A i \in 1..Len(op.q) :
              (\A j \in PrefixEnds(op.q) : j < i) => op.out[i] = op.q[i]

\* adjust_dirname_case rewrote a directory prefix of a buffer that has a
\* final component.
C6_Witness ==
    /\ op.name = "adjust_dirname_case"
    /\ op.out # op.q
    /\ \E i \in 1..Len(op.q) : \A j \in PrefixEnds(op.q) : j < i

\* The Path Hash Index as the set of entries under each hash.
PathIndex(w) ==
    [h \in Hashes |->
        {w.istate.name_hash[h][i] : i \in 1..Len(w.istate.name_hash[h])}]

\* The Directory Reference Tree with the stored spellings folded.
FoldedTree(w) ==
    {[name |-> Fold(n.name), hash |-> n.hash, nr |-> n.nr,
      parent |-> Fold(n.parent)] : n \in TreeView(w)}

\* The state a sequential bulk build reaches over the collection that holds
\* the entries of S in index order.
BulkBuild(S) ==
    lazy_init_name_hash(
        [ce |-> [e \in Entries |-> [ce[e] EXCEPT !.CE_HASHED = FALSE]],
         istate |-> [cache |-> SortedCache(S), name_hash_initialized |-> FALSE,
                     name_hash |-> EmptyMap, dir_hash |-> EmptyMap],
         heap |-> [d \in NodeIds |-> FreeSlot],
         ub |-> FALSE,
         ignore_case |-> ignore_case])

\* The statement of C7 as written: the entries inserted so far, in whatever
\* order, have produced the tables a bulk build over the same entries in index
\* order produces, stored directory spellings included.
C7_AsWritten ==
    istate.name_hash_initialized =>
        LET b == BulkBuild(Indexed(World))
        IN  /\ PathIndex(World) = PathIndex(b)
            /\ TreeView(World) = TreeView(b)

\* C7 (amended): the entries inserted so far, in whatever order, have produced
\* the same Path Hash Index membership and the same Directory Reference Tree
\* (nodes, hashes, reference counts, parent links) as a bulk build over the
\* same entries in index order, up to the letter case of the stored directory
\* spellings, which is that of the first entry inserted under each directory.
C7_OrderIndependent ==
    istate.name_hash_initialized =>
        LET b == BulkBuild(Indexed(World))
        IN  /\ PathIndex(World) = PathIndex(b)
            /\ FoldedTree(World) = FoldedTree(b)
            /\ [e \in Entries |-> ce[e].CE_HASHED]
                 = [e \in Entries |-> b.ce[e].CE_HASHED]

\* Entries sharing a parent directory were inserted against index order:
\* a chain holds a later entry of the index before an earlier one.
C7_Witness ==
    /\ istate.name_hash_initialized
    /\ ignore_case
    /\ Cardinality(TreeView(World)) = 2
    /\ \E h \in Hashes : \E i, j \in 1..Len(istate.name_hash[h]) :
          /\ i < j
          /\ EntryLess(istate.name_hash[h][j], istate.name_hash[h][i])
          /\ DirsOf(Name(istate.name_hash[h][i]))
               = DirsOf(Name(istate.name_hash[h][j]))
          /\ DirsOf(Name(istate.name_hash[h][i])) # {}

\* C8: add_name_hash on an entry whose CE_HASHED flag is set, and
\* remove_name_hash on an entry whose flag is clear, change neither table, no
\* dir_entry and no entry's flag.
C8_GuardedNoOps ==
    [][((op'.name = "add_name_hash" /\ op'.hashed)
          \/ (op'.name = "remove_name_hash" /\ ~op'.hashed))
       => UNCHANGED <<ce, istate, heap, ub>>]_vars

\* add_name_hash has just been called on an entry that was already indexed,
\* under the case-insensitive policy, with its directory in the tree.
C8_Witness ==
    /\ op.name = "add_name_hash"
    /\ op.hashed
    /\ ignore_case
    /\ op.e \in Indexed(World)
    /\ op.before # {}
    /\ op.before = TreeView(World)

\* remove_name_hash has just been called on an entry that had been removed
\* before.
C8_WitnessRemove ==
    /\ op.name = "remove_name_hash"
    /\ ~op.hashed
    /\ op.built
    /\ Indexed(World) # {}

\* C9: remove_name_hash on an indexed entry takes exactly that object out of
\* its chain and clears only its flag; every other indexed entry with the same
\* path spelling stays in the chain, and an exact lookup of the path still
\* returns one of them.
C9_RemoveByIdentity ==
    [][(op'.name = "remove_name_hash" /\ op'.hashed /\ op'.built) =>
         LET e == op'.e
             twins == {x \in Indexed(World) \ {e} : Name(x) = Name(e)}
         IN  /\ istate'.name_hash =
                   [h \in Hashes |-> Without(istate.name_hash[h], e)]
             /\ ce' = [ce EXCEPT ![e].CE_HASHED = FALSE]
             /\ twins \subseteq Indexed(World')
             /\ twins # {} =>
                   index_file_exists(World', Name(e), ce_namelen(e), FALSE).res
                       \in twins]_vars

\* One of two indexed entries with the same spelling has just been removed
\* and the lookup of their path returns the other.
C9_Witness ==
    /\ op.name = "remove_name_hash"
    /\ op.hashed
    /\ op.built
    /\ ~ce[op.e].CE_HASHED
    /\ \E x \in Indexed(World) :
          /\ x # op.e
          /\ Name(x) = Name(op.e)
          /\ index_file_exists(World, Name(op.e), ce_namelen(op.e), FALSE).res = x

\* C10: whatever entries were precomputed, the run has the flags, the Path
\* Hash Index, the Directory Reference Tree (nodes, hashes, reference counts,
\* parents) and the lookup results of the reference run, which drops every
\* precompute_istate_hashes call.
C10_PrecomputeInvisible ==
    /\ [e \in Entries |-> ce[e].CE_HASHED]
         = [e \in Entries |-> ref.ce[e].CE_HASHED]
    /\ istate = ref.istate
    /\ heap = ref.heap
    /\ ub = ref.ub
    /\ \A name \in FileQueries : \A icase \in BOOLEAN :
          index_file_exists(World, name, Len(name), icase).res
            = index_file_exists(RefWorld, name, Len(name), icase).res
    /\ \A name \in DirQueries :
          index_dir_exists(World, name, Len(name)).res
            = index_dir_exists(RefWorld, name, Len(name)).res
    /\ \A name \in AdjustInputs :
          adjust_dirname_case(World, name).name
            = adjust_dirname_case(RefWorld, name).name

\* Under the case-insensitive policy the index holds a precomputed entry with
\* a parent directory, a precomputed entry without one and an entry that was
\* never precomputed.
C10_Witness ==
    /\ istate.name_hash_initialized
    /\ ignore_case
    /\ \E e \in Indexed(World) :
          HasBit(ce[e].precompute_hash_state, CE_PRECOMPUTE_HASH_STATE__DIR)
    /\ \E e \in Indexed(World) :
          ce[e].precompute_hash_state = CE_PRECOMPUTE_HASH_STATE__SET
    /\ \E e \in Indexed(World) : ce[e].precompute_hash_state = 0
    /\ Cardinality(TreeView(World)) = 2

\* The dir_entry objects of the Directory Reference Tree.
TreeNodes == Members(istate.dir_hash)

\* C11: the tree holds a dir_entry exactly when its reference count is
\* strictly positive: no node of dir_hash has nr <= 0 and no allocated
\* dir_entry is outside dir_hash, between any two of lazy build,
\* add_name_hash, remove_name_hash, the lookups and free_name_hash.
C11_AsWritten ==
    /\ \A d \in TreeNodes : heap[d].nr > 0
    /\ LiveNodes = TreeNodes

\* C12: the parent link of every dir_entry of the tree is NULL or the
\* address of a dir_entry that is allocated and in the tree.
C12_AsWritten ==
    \A d \in TreeNodes :
        heap[d].parent # NULL =>
            /\ heap[heap[d].parent].live
            /\ heap[d].parent \in TreeNodes

\* The stored spellings of the directories of the tree.
TreeNames(w) == {w.heap[d].name : d \in Members(w.istate.dir_hash)}

\* C13: remove_name_hash never creates a dir_entry: the directories of the
\* tree after the call are among those before it.
C13_AsWritten ==
    [][op'.name = "remove_name_hash" =>
          TreeNames(World') \subseteq TreeNames(World)]_vars

\* The lookups: the operations that run lazy_init_name_hash.
Lookups == {"index_file_exists", "index_dir_exists", "adjust_dirname_case"}

\* Entry e is indexed in world w: index_file_exists finds an entry by e's
\* exact path and, under the case-insensitive policy, index_dir_exists is
\* true for each ancestor directory of the path.
FoundAgain(w, e) ==
    LET r == index_file_exists(w, Name(e), ce_namelen(e), FALSE).res
    IN  /\ r # NULL
        /\ Name(r) = Name(e)
        /\ w.ignore_case =>
              \A dir \in DirsOf(Name(e)) : index_dir_exists(w, dir, Len(dir)).res

\* C14: a lookup that follows free_name_hash rebuilds the index from the
\* ordered collection: every entry of the collection is found again by its
\* exact path, with its ancestor directories under the case-insensitive
\* policy.
C14_AsWritten ==
    [][(op.name = "free_name_hash" /\ op'.name \in Lookups) =>
          \A e \in CacheSet : FoundAgain(World', e)]_vars

\* C17: an entry's CE_HASHED flag is set exactly when the entry is a member
\* of the Path Hash Index, in every state reached by lazy build,
\* add_name_hash, remove_name_hash and free_name_hash.
C17_AsWritten ==
    \A e \in Entries : ce[e].CE_HASHED <=> e \in Indexed(World)

\* C15: the lazy build runs once.  A lookup on an unbuilt index marks it
\* built and leaves every entry of the collection flagged, inserting those
\* that were not; a lookup on a built index changes no table, no dir_entry
\* and no flag; add_name_hash and remove_name_hash on an unbuilt index change
\* nothing.
C15_BuildOnce ==
    [][/\ (op'.name \in Lookups /\ ~istate.name_hash_initialized) =>
             /\ istate'.name_hash_initialized
             /\ \A e \in CacheSet :
                   /\ ce'[e].CE_HASHED
                   /\ ~ce[e].CE_HASHED => e \in Indexed(World')
       /\ (op'.name \in Lookups /\ istate.name_hash_initialized) =>
             UNCHANGED <<ce, istate, heap, ub>>
       /\ (op'.name \in {"add_name_hash", "remove_name_hash"}
             /\ ~istate.name_hash_initialized) =>
             UNCHANGED <<ce, istate, heap, ub>>]_vars

\* A lookup has just run on an index that was already built and holds entries
\* and directories.
C15_Witness ==
    /\ op.name \in Lookups
    /\ op.built
    /\ Indexed(World) # {}
    /\ TreeNodes # {}

\* add_name_hash has just been called on an index that is not built, for an
\* entry that is not flagged.
C15_WitnessUnbuilt ==
    /\ op.name = "add_name_hash"
    /\ ~op.built
    /\ ~istate.name_hash_initialized
    /\ ~ce[op.e].CE_HASHED

\* The immediate parent directory of a path, <<>> for none.
ParentDir(name) ==
    LET stripped == StripComponent(name, Len(name))
    IN  IF stripped <= 0 THEN <<>> ELSE SubSeq(name, 1, stripped - 1)

\* C16: under the case-insensitive policy the reference count of each
\* dir_entry of the tree is the number of indexed entries whose immediate
\* parent directory it is (under case folding) plus the number of dir_entry
\* objects of the tree whose parent link it is.
C16_AsWritten ==
    ignore_case =>
        \A d \in TreeNodes :
            heap[d].nr =
                Cardinality({e \in Indexed(World) :
                                Fold(ParentDir(Name(e))) = Fold(heap[d].name)})
                  + Cardinality({c \in TreeNodes : heap[c].parent = d})

\* C18: the tree holds at most one dir_entry per case-folded directory path:
\* no two dir_entry objects of dir_hash have the same length and names equal
\* under ASCII case folding.
C18_OneNodePerDirectory ==
    \A d1, d2 \in TreeNodes :
        (heap[d1].namelen = heap[d2].namelen
           /\ Fold(heap[d1].name) = Fold(heap[d2].name)) => d1 = d2

\* The build has put entries that spell a directory in different cases under
\* one dir_entry: one reached it through the previous-directory cursor,
\* another through the hash lookup.
C18_Witness ==
    /\ ignore_case
    /\ \E d \in TreeNodes :
          /\ \E e \in Indexed(World) :
                /\ heap[d].name \in DirsOf(Name(e))
                /\ \E x \in Indexed(World) \ {e} :
                      /\ Name(x) = Name(e)
                      /\ EntryLess(e, x)
          /\ \E e \in Indexed(World) : \E dir \in DirsOf(Name(e)) :
                /\ Fold(dir) = Fold(heap[d].name)
                /\ dir # heap[d].name

====
